---- MODULE Spec2Model ----
(***************************************************************************)
(* YTGrabber download queue scheduler (src/src/main.py, class MainWindow). *)
(*                                                                         *)
(* The control thread (Qt event loop) owns the queue, the counter of       *)
(* active downloads and the status tables; every handler below is one      *)
(* event-loop callback and is therefore one atomic action.  A worker       *)
(* thread (DownloadWorker.run) only emits one terminal signal, which the   *)
(* event loop delivers later to the connected handler.                     *)
(***************************************************************************)
EXTENDS Integers, Sequences, FiniteSets, TLC

VARIABLES
    download_queue,            \* self._download_queue: job ids, head first
    active_downloads,          \* self._active_downloads
    max_concurrent_downloads,  \* self._max_concurrent_downloads
    settings_max,              \* QSettings "max_concurrent_downloads" (a string of digits)
    jobs,                      \* every download item created so far, by id
    batch_status,              \* batch_queue_table column 1, one cell per row
    batch_cancel_enabled,      \* batch_queue_table column 3: is the Cancel button enabled
    playlist_status,           \* playlist_table column 2, one cell per row
    playlist_info,             \* self._playlist_info: None or a list of videos
    fetching,                  \* some FetchPlaylistInfoWorker has not delivered its result yet
    launched,                  \* ids of the jobs handed to a worker, in launch order
    trim,                      \* one TrimWorker: its position in run(), its scratch
                               \* directory and the events it has emitted
    worker,                    \* one DownloadWorker, its external process and the
                               \* signals it has emitted
    parser,                    \* one call of _parse_progress: the line it is given
                               \* and the values it emits on the progress signal
    command,                   \* what one DownloadWorker is constructed with, the
                               \* QSettings store and the argument list run() builds
    single,                    \* the single-video tab: its two buttons,
                               \* self._current_worker and the workers it started
    loop                       \* the threads of the application: the events posted
                               \* to the event loop of the main thread and the
                               \* handler each thread is executing

schedulerVars == <<download_queue, active_downloads, max_concurrent_downloads,
                   settings_max, jobs, batch_status, batch_cancel_enabled,
                   playlist_status, playlist_info, fetching, launched>>

\* The state of the worker objects, which no scheduler handler reads or writes.
workerVars == <<trim, worker, parser, command, single, loop>>

vars == <<schedulerVars, workerVars>>

(***************************************************************************)
(* Bounds of the model.                                                    *)
(***************************************************************************)
MaxJobs == 3
MaxVideos == 1
MaxChoice == 2
MaxExit == 2
MaxTrimLines == 1
MaxStops == 1
MaxLines == 2
MaxSize == 1
MaxToggles == 2
MaxLineLen == 6

(***************************************************************************)
(* Program constants.                                                      *)
(***************************************************************************)
SpinMin == 1
SpinMax == 10
DefaultMaxConcurrent == 2

(***************************************************************************)
(* str(n) and int(s) on the decimal strings the settings store holds.      *)
(***************************************************************************)
IntToStr(n) == IF n < 10 THEN <<n>> ELSE <<n \div 10, n % 10>>

RECURSIVE StrToInt(_)
StrToInt(s) == IF s = <<>> THEN 0
               ELSE 10 * StrToInt(SubSeq(s, 1, Len(s) - 1)) + s[Len(s)]

\* The values the spin boxes accept, as far as the model lets the user pick them.
SpinRange == {m \in SpinMin..SpinMax : m <= MaxChoice}

(***************************************************************************)
(* QTableWidget.setItem(row, col, item): a row outside the table is        *)
(* ignored.  Rows are 0-based in the program, cells 1-based here.          *)
(***************************************************************************)
SetItem(table, row, text) ==
    IF row + 1 \in 1..Len(table) THEN [table EXCEPT ![row + 1] = text] ELSE table

\* QTableWidget.setRowCount(n): rows beyond n are dropped, new rows are empty.
SetRowCount(table, n, empty) ==
    [r \in 1..n |-> IF r <= Len(table) THEN table[r] ELSE empty]

\* A pop that leaves the list as it was.
PopKeepsItem(list, i) == list

\* list.pop(i) for a 0-based position i.
Pop(list, i) == SubSeq(list, 1, i) \o SubSeq(list, i + 2, Len(list))

NoInfo == [none |-> TRUE, len |-> 0]

\* A download item dict plus the worker created for it.  stop_flag is the
\* worker's _stop_flag.  cancel_requested records that the Cancel button of the
\* job's row was clicked while its worker was running and has not ended yet;
\* finished_calls, error_calls and decrements count what the handlers did,
\* history_records the rows append_download_history wrote for the job.
NewJob(kind, index) ==
    [kind |-> kind, index |-> index, st |-> "pending",
     stop_flag |-> FALSE, cancel_requested |-> FALSE,
     finished_calls |-> 0, error_calls |-> 0, decrements |-> 0,
     history_records |-> 0]

JobIds == 1..Len(jobs)

\* The part of the state the queue handlers read and write, as one value.
Cur == [queue |-> download_queue, active |-> active_downloads, jobs |-> jobs,
        batch_status |-> batch_status, playlist_status |-> playlist_status,
        launched |-> launched]

Commit(s) ==
    /\ download_queue' = s.queue
    /\ active_downloads' = s.active
    /\ jobs' = s.jobs
    /\ batch_status' = s.batch_status
    /\ playlist_status' = s.playlist_status
    /\ launched' = s.launched

\* TrimWorker.__init__: the thread is not started, nothing has been emitted.
\* pc is the position of run(); stage is the pipeline stage (1..5) it is at;
\* exc is the exception in flight ("none", "called_process_error", "other");
\* tmp_dir is the scratch directory ("none", "exists", "removed"); started lists
\* the stages whose process was launched, codes the exit codes of the stages
\* that ended, lines the number of output lines forwarded from each download;
\* events lists the terminal signals emitted, with who emitted each.
NewTrimWorker ==
    [pc |-> "created", stage |-> 0, exc |-> "none", tmp_dir |-> "none",
     started |-> <<>>, codes |-> <<>>, lines |-> <<>>, events |-> <<>>]

\* DownloadWorker.__init__ and the job it was created for.  pc is the position
\* of run(); paused and stop_flag are _paused and _stop_flag; process is the
\* state of self._process ("none", "running", "exited") with its returncode;
\* output holds the lines the process has written and nread how many of them
\* the worker has read; file is the destination file when the process has
\* exited; log, notified and events are the emissions of progress_text, paused
\* and finished/error; delivered counts the terminal signals handled by the
\* connected slot, which writes status.  terminated, toggles, stops and
\* stop_before_exit record what toggle_pause() and stop() have done.
NewDownloadWorker ==
    [pc |-> "created", paused |-> FALSE, stop_flag |-> FALSE,
     process |-> "none", returncode |-> 0, terminated |-> FALSE, exc |-> "none",
     output |-> <<>>, nread |-> 0, file |-> [exists |-> FALSE, size |-> 0],
     log |-> <<>>, notified |-> <<>>, events |-> <<>>,
     delivered |-> 0, status |-> "Downloading",
     toggles |-> 0, stops |-> 0, stop_before_exit |-> FALSE]

\* A line of yt-dlp output as _parse_progress looks at it: whether it holds
\* "[download]", one of "Merging" / "Converting" / "Post-processing", and
\* "Deleting original file", and the characters of the rest of the line.
Line(download, postprocessing, deleting, text) ==
    [download |-> download, postprocessing |-> postprocessing,
     deleting |-> deleting, text |-> text]

\* No call yet: parsed is FALSE and nothing was emitted on progress.
NewParser(line) == [line |-> line, parsed |-> FALSE, progress |-> <<>>]

SchedulerInit ==
    /\ download_queue = <<>>
    /\ active_downloads = 0
    /\ settings_max = IntToStr(DefaultMaxConcurrent)
    /\ max_concurrent_downloads = StrToInt(settings_max)
    /\ jobs = <<>>
    /\ batch_status = <<>>
    /\ batch_cancel_enabled = <<>>
    /\ playlist_status = <<>>
    /\ playlist_info = NoInfo
    /\ fetching = FALSE
    /\ launched = <<>>

\* The window as constructed: no worker object exists and nothing is parsed.
Absent == [pc |-> "absent"]

Init ==
    /\ SchedulerInit
    /\ trim = Absent
    /\ worker = Absent
    /\ parser = Absent
    /\ command = Absent
    /\ single = Absent
    /\ loop = Absent


(***************************************************************************)
(* _process_download_queue and the two launchers it calls.                 *)
(***************************************************************************)
\* The capacity test with > in place of >=.
AtCapacityOffByOne(active, maxc) == active > maxc

\* "if self._active_downloads >= self._max_concurrent_downloads: return"
AtCapacity(active, maxc) == active >= maxc

\* The status cell becomes "Downloading", a DownloadWorker is created and started.
StartPlaylistItemDownload(s, id) ==
    [s EXCEPT !.playlist_status = SetItem(@, s.jobs[id].index, "Downloading"),
              !.jobs[id].st = "running",
              !.launched = Append(@, id)]

StartBatchItemDownload(s, id) ==
    [s EXCEPT !.batch_status = SetItem(@, s.jobs[id].index, "Downloading"),
              !.jobs[id].st = "running",
              !.launched = Append(@, id)]

\* A queue processor that keeps admitting until capacity or the queue is exhausted.
RECURSIVE ProcessDownloadQueueLoop(_, _)
ProcessDownloadQueueLoop(s, maxc) ==
    IF AtCapacity(s.active, maxc) THEN s
    ELSE IF s.queue = <<>> THEN s
    ELSE LET id == s.queue[1]
             t == [s EXCEPT !.queue = Pop(@, 0), !.active = @ + 1]
         IN  ProcessDownloadQueueLoop(
                IF t.jobs[id].kind = "playlist" THEN StartPlaylistItemDownload(t, id)
                ELSE IF t.jobs[id].kind = "batch" THEN StartBatchItemDownload(t, id)
                ELSE [t EXCEPT !.active = @ - 1],
                maxc)

\* One call admits at most the head of the queue: there is no loop.
ProcessDownloadQueue(s, maxc) ==
    IF AtCapacity(s.active, maxc) THEN s
    ELSE IF s.queue = <<>> THEN s
    ELSE LET id == s.queue[1]
             t == [s EXCEPT !.queue = Pop(@, 0), !.active = @ + 1]
         IN  IF t.jobs[id].kind = "playlist" THEN StartPlaylistItemDownload(t, id)
             ELSE IF t.jobs[id].kind = "batch" THEN StartBatchItemDownload(t, id)
             ELSE [t EXCEPT !.active = @ - 1]

\* The 1-second QTimer connected to _process_download_queue.
QueueTimer ==
    /\ Commit(ProcessDownloadQueue(Cur, max_concurrent_downloads))
    /\ UNCHANGED <<max_concurrent_downloads, settings_max, batch_cancel_enabled,
                   playlist_info, fetching>>
    /\ UNCHANGED workerVars

(***************************************************************************)
(* _start_batch_download: n URLs were entered.                             *)
(***************************************************************************)
\* The loop with the new item inserted at the head of the queue.
RECURSIVE AddBatchUrlsAtHead(_, _, _)
AddBatchUrlsAtHead(s, i, n) ==
    IF i >= n THEN s
    ELSE AddBatchUrlsAtHead(
            [s EXCEPT !.batch_status = SetItem(@, i, "Queued"),
                      !.jobs = Append(@, NewJob("batch", i)),
                      !.queue = <<Len(s.jobs) + 1>> \o @],
            i + 1, n)

\* The loop "for i, url in enumerate(urls)" from row i on.
RECURSIVE AddBatchUrls(_, _, _)
AddBatchUrls(s, i, n) ==
    IF i >= n THEN s
    ELSE AddBatchUrls(
            [s EXCEPT !.batch_status = SetItem(@, i, "Queued"),
                      !.jobs = Append(@, NewJob("batch", i)),
                      !.queue = Append(@, Len(s.jobs) + 1)],
            i + 1, n)

StartBatchDownload(n) ==
    /\ n >= 1
    /\ Len(jobs) + n <= MaxJobs
    /\ LET s0 == [Cur EXCEPT !.batch_status = SetRowCount(@, n, "")]
           s1 == AddBatchUrls(s0, 0, n)
       IN  Commit(ProcessDownloadQueue(s1, max_concurrent_downloads))
    /\ batch_cancel_enabled' = [r \in 1..n |-> TRUE]
    /\ UNCHANGED <<max_concurrent_downloads, settings_max, playlist_info, fetching>>
    /\ UNCHANGED workerVars

(***************************************************************************)
(* _cancel_batch_item: the Cancel button of row idx was clicked.           *)
(***************************************************************************)
\* Position (0-based) of the first queued item whose batch_index is idx, or -1.
RECURSIVE FindBatchItem(_, _, _, _)
FindBatchItem(queue, jbs, idx, i) ==
    IF i >= Len(queue) THEN -1
    ELSE IF jbs[queue[i + 1]].kind = "batch" /\ jbs[queue[i + 1]].index = idx THEN i
    ELSE FindBatchItem(queue, jbs, idx, i + 1)

\* The running batch jobs shown in row idx: the click reaches none of their workers.
RunningInRow(idx) ==
    {id \in JobIds : jobs[id].kind = "batch" /\ jobs[id].index = idx
                     /\ jobs[id].st = "running"}

CancelBatchItem(idx) ==
    /\ idx + 1 \in 1..Len(batch_cancel_enabled)
    /\ batch_cancel_enabled[idx + 1]
    /\ LET i == FindBatchItem(download_queue, jobs, idx, 0)
       IN  IF i >= 0
           THEN /\ download_queue' = Pop(download_queue, i)
                /\ jobs' = [jobs EXCEPT ![download_queue[i + 1]].st = "cancelled"]
                /\ batch_status' = SetItem(batch_status, idx, "Cancelled")
                /\ batch_cancel_enabled' = [batch_cancel_enabled EXCEPT ![idx + 1] = FALSE]
           ELSE /\ jobs' = [id \in JobIds |->
                              IF id \in RunningInRow(idx)
                              THEN [jobs[id] EXCEPT !.cancel_requested = TRUE]
                              ELSE jobs[id]]
                /\ UNCHANGED <<download_queue, batch_status, batch_cancel_enabled>>
    /\ UNCHANGED <<active_downloads, max_concurrent_downloads, settings_max,
                   playlist_status, playlist_info, fetching, launched>>
    /\ UNCHANGED workerVars


(***************************************************************************)
(* Playlist tab: _fetch_playlist_info, _on_playlist_info_fetched,          *)
(* _start_playlist_download.                                               *)
(***************************************************************************)
\* Reached from the Fetch Playlist button and from the single-video tab, also
\* while an earlier fetch is still running; any number of fetch workers may be
\* in flight, and the model keeps only whether there is one.
FetchPlaylistInfo ==
    /\ playlist_info' = NoInfo
    /\ playlist_status' = SetRowCount(playlist_status, 0, "")
    /\ fetching' = TRUE
    /\ UNCHANGED <<download_queue, active_downloads, max_concurrent_downloads,
                   settings_max, jobs, batch_status, batch_cancel_enabled, launched>>
    /\ UNCHANGED workerVars

\* The fetch worker emitted finished(videos) with n videos.
OnPlaylistInfoFetched(n) ==
    /\ fetching
    /\ fetching' \in BOOLEAN
    /\ IF n = 0
       THEN UNCHANGED <<playlist_info, playlist_status>>
       ELSE /\ playlist_info' = [none |-> FALSE, len |-> n]
            /\ playlist_status' = [r \in 1..n |-> "Pending"]
    /\ UNCHANGED <<download_queue, active_downloads, max_concurrent_downloads,
                   settings_max, jobs, batch_status, batch_cancel_enabled, launched>>
    /\ UNCHANGED workerVars

\* The fetch worker emitted error: only a log line.
OnPlaylistFetchError ==
    /\ fetching
    /\ fetching' \in BOOLEAN
    /\ UNCHANGED <<download_queue, active_downloads, max_concurrent_downloads,
                   settings_max, jobs, batch_status, batch_cancel_enabled,
                   playlist_status, playlist_info, launched>>
    /\ UNCHANGED workerVars

Min(S) == CHOOSE x \in S : \A y \in S : x <= y

\* The loop "for idx in selected_indices", in ascending row order.
RECURSIVE AddPlaylistItems(_, _)
AddPlaylistItems(s, selected) ==
    IF selected = {} THEN s
    ELSE LET idx == Min(selected)
         IN  AddPlaylistItems(
                [s EXCEPT !.jobs = Append(@, NewJob("playlist", idx)),
                          !.queue = Append(@, Len(s.jobs) + 1),
                          !.playlist_status = SetItem(@, idx, "Queued")],
                selected \ {idx})

StartPlaylistDownload(selected) ==
    /\ ~playlist_info.none
    /\ playlist_info.len > 0
    /\ selected # {}
    /\ selected \subseteq 0..(Len(playlist_status) - 1)
    /\ Len(jobs) + Cardinality(selected) <= MaxJobs
    /\ Commit(ProcessDownloadQueue(AddPlaylistItems(Cur, selected),
                                   max_concurrent_downloads))
    /\ UNCHANGED <<max_concurrent_downloads, settings_max, batch_cancel_enabled,
                   playlist_info, fetching>>
    /\ UNCHANGED workerVars

(***************************************************************************)
(* Terminal-event handlers of the control thread.  DownloadWorker.run ends  *)
(* with exactly one of finished / error; the emission changes nothing the  *)
(* control thread reads, so it is taken together with the queued delivery  *)
(* of the signal to the connected handler.                                 *)
(***************************************************************************)
\* "self._active_downloads -= 1" followed by "self._process_download_queue()".
DecrementAndProcess(s, id, maxc) ==
    ProcessDownloadQueue([s EXCEPT !.active = @ - 1, !.jobs[id].decrements = @ + 1],
                         maxc)

\* "if idx < len(self._playlist_info): ... append_download_history(...)" with
\* the playlist information as it is when the signal is handled.
AddPlaylistHistory(s, id, info) ==
    IF s.jobs[id].index < info.len
    THEN [s EXCEPT !.jobs[id].history_records = @ + 1]
    ELSE s

\* len(self._playlist_info) raises TypeError when the playlist info is None:
\* the slot ends there, before the history row, the decrement and the
\* follow-up call.
OnPlaylistItemFinished(id) ==
    /\ jobs[id].kind = "playlist"
    /\ jobs[id].st = "running"
    /\ LET s1 == [Cur EXCEPT
                    !.playlist_status = SetItem(@, jobs[id].index, "Completed"),
                    !.jobs[id].st = "completed",
                    !.jobs[id].finished_calls = @ + 1,
                    !.jobs[id].cancel_requested = FALSE]
       IN  IF playlist_info.none
           THEN Commit(s1)
           ELSE Commit(DecrementAndProcess(AddPlaylistHistory(s1, id, playlist_info),
                                           id, max_concurrent_downloads))
    /\ UNCHANGED <<max_concurrent_downloads, settings_max, batch_cancel_enabled,
                   playlist_info, fetching>>
    /\ UNCHANGED workerVars

OnPlaylistItemError(id) ==
    /\ jobs[id].kind = "playlist"
    /\ jobs[id].st = "running"
    /\ LET s1 == [Cur EXCEPT
                    !.playlist_status = SetItem(@, jobs[id].index, "Failed"),
                    !.jobs[id].st = "failed",
                    !.jobs[id].error_calls = @ + 1,
                    !.jobs[id].cancel_requested = FALSE]
       IN  Commit(DecrementAndProcess(s1, id, max_concurrent_downloads))
    /\ UNCHANGED <<max_concurrent_downloads, settings_max, batch_cancel_enabled,
                   playlist_info, fetching>>
    /\ UNCHANGED workerVars

\* cellWidget(idx, 3) is None for a row outside the table; the code tests it.
DisableCancel(buttons, idx) ==
    IF idx + 1 \in 1..Len(buttons) THEN [buttons EXCEPT ![idx + 1] = FALSE] ELSE buttons

\* The rename is wrapped in try/except and the history append catches its own
\* error, so every path reaches the history row and the decrement.
OnBatchItemFinished(id) ==
    /\ jobs[id].kind = "batch"
    /\ jobs[id].st = "running"
    /\ LET s1 == [Cur EXCEPT
                    !.batch_status = SetItem(@, jobs[id].index, "Completed"),
                    !.jobs[id].st = "completed",
                    !.jobs[id].finished_calls = @ + 1,
                    !.jobs[id].history_records = @ + 1,
                    !.jobs[id].cancel_requested = FALSE]
       IN  Commit(DecrementAndProcess(s1, id, max_concurrent_downloads))
    /\ batch_cancel_enabled' = DisableCancel(batch_cancel_enabled, jobs[id].index)
    /\ UNCHANGED <<max_concurrent_downloads, settings_max, playlist_info, fetching>>
    /\ UNCHANGED workerVars

OnBatchItemError(id) ==
    /\ jobs[id].kind = "batch"
    /\ jobs[id].st = "running"
    /\ LET s1 == [Cur EXCEPT
                    !.batch_status = SetItem(@, jobs[id].index, "Failed"),
                    !.jobs[id].st = "failed",
                    !.jobs[id].error_calls = @ + 1,
                    !.jobs[id].cancel_requested = FALSE]
       IN  Commit(DecrementAndProcess(s1, id, max_concurrent_downloads))
    /\ batch_cancel_enabled' = DisableCancel(batch_cancel_enabled, jobs[id].index)
    /\ UNCHANGED <<max_concurrent_downloads, settings_max, playlist_info, fetching>>
    /\ UNCHANGED workerVars

(***************************************************************************)
(* The two settings dialogs; the spin boxes allow SpinMin..SpinMax.        *)
(***************************************************************************)
\* Download Settings dialog, Save: the value is stored and assigned directly.
SaveDownloadSettings(m) ==
    /\ settings_max' = IntToStr(m)
    /\ max_concurrent_downloads' = m
    /\ UNCHANGED <<download_queue, active_downloads, jobs, batch_status,
                   batch_cancel_enabled, playlist_status, playlist_info, fetching,
                   launched>>
    /\ UNCHANGED workerVars

\* The dialog stores the value and the running session keeps the old one.
OpenSettingsDialogStale(m) ==
    /\ settings_max' = IntToStr(m)
    /\ UNCHANGED <<max_concurrent_downloads, download_queue, active_downloads, jobs,
                   batch_status, batch_cancel_enabled, playlist_status, playlist_info,
                   fetching, launched>>
    /\ UNCHANGED workerVars

\* General Settings dialog accepted: SettingsDialog.accept stores the value,
\* _open_settings_dialog reads it back from the store.
OpenSettingsDialog(m) ==
    /\ settings_max' = IntToStr(m)
    /\ max_concurrent_downloads' = StrToInt(settings_max')
    /\ UNCHANGED <<download_queue, active_downloads, jobs, batch_status,
                   batch_cancel_enabled, playlist_status, playlist_info, fetching,
                   launched>>
    /\ UNCHANGED workerVars

Next ==
    \/ QueueTimer
    \/ \E n \in 1..MaxJobs : StartBatchDownload(n)
    \/ \E idx \in 0..(MaxJobs - 1) : CancelBatchItem(idx)
    \/ FetchPlaylistInfo
    \/ \E n \in 0..MaxVideos : OnPlaylistInfoFetched(n)
    \/ OnPlaylistFetchError
    \/ \E selected \in SUBSET (0..(MaxVideos - 1)) : StartPlaylistDownload(selected)
    \/ \E id \in JobIds : OnPlaylistItemFinished(id)
    \/ \E id \in JobIds : OnPlaylistItemError(id)
    \/ \E id \in JobIds : OnBatchItemFinished(id)
    \/ \E id \in JobIds : OnBatchItemError(id)
    \/ \E m \in SpinRange : SaveDownloadSettings(m)
    \/ \E m \in SpinRange : OpenSettingsDialog(m)

Spec == Init /\ [][Next]_vars

(***************************************************************************)
(* The same program under the scheduling the event loop provides: the      *)
(* 1-second queue timer fires again and again, so a call that would admit  *)
(* a job cannot be put off forever, and every launched worker ends and has *)
(* its terminal signal delivered.  The user's actions are not forced.      *)
(***************************************************************************)
WorkerEnds(id) ==
    /\ id \in JobIds
    /\ \/ OnPlaylistItemFinished(id)
       \/ OnPlaylistItemError(id)
       \/ OnBatchItemFinished(id)
       \/ OnBatchItemError(id)

FairSpec ==
    /\ Init
    /\ [][Next]_vars
    /\ SF_vars(QueueTimer)
    /\ \A id \in 1..MaxJobs : WF_vars(WorkerEnds(id))

(***************************************************************************)
(* TrimWorker (a QThread).  run() is the pipeline of five external         *)
(* processes inside "with tempfile.TemporaryDirectory()", itself inside    *)
(* "try ... except Exception"; each action is one step of the worker       *)
(* thread.  Stages 1 and 2 are yt-dlp downloads whose output is forwarded  *)
(* line by line, stages 3 to 5 are ffmpeg runs with check=True.            *)
(***************************************************************************)
ExitCodes == 0..MaxExit

LastStage == 5

DownloadStages == {1, 2}

\* A return code test that lets every stage pass.
FailedIgnored(returncode) == FALSE

\* "if video_process.returncode != 0", and check=True of subprocess.run.
Failed(returncode) == returncode # 0

\* A scope exit that leaves the directory in place.
CleanupSkipped(dir) == dir

\* TemporaryDirectory.__exit__: the directory and its files are removed.
Cleanup(dir) == "removed"

\* A terminal signal; code is the exit code its message carries, -1 for none.
TrimEvent(kind, code, by) == [kind |-> kind, code |-> code, by |-> by]

TrimFrame == UNCHANGED <<schedulerVars, worker, parser, command, single, loop>>

\* worker.start(): the thread enters run().
TrimStart ==
    /\ trim.pc = "created"
    /\ trim' = [trim EXCEPT !.pc = "begin"]
    /\ TrimFrame

\* get_ffmpeg_path() and the creation of the scratch directory; when
\* mkdtemp raises, no directory exists and the except clause is next.
TrimEnterScratch ==
    /\ trim.pc = "begin"
    /\ \/ trim' = [trim EXCEPT !.pc = "launch", !.stage = 1, !.tmp_dir = "exists"]
       \/ trim' = [trim EXCEPT !.pc = "handler", !.exc = "other"]
    /\ TrimFrame

\* subprocess.Popen / subprocess.run starts the process of the current stage,
\* or raises because the program cannot be launched.
TrimLaunch ==
    /\ trim.pc = "launch"
    /\ \/ trim' = [trim EXCEPT !.pc = "running",
                               !.started = Append(@, trim.stage),
                               !.lines = IF trim.stage \in DownloadStages
                                         THEN Append(@, 0) ELSE @]
       \/ trim' = [trim EXCEPT !.pc = "unwind_exc", !.exc = "other"]
    /\ TrimFrame

\* "for line in video_process.stdout: self.progress_text.emit(line.strip())"
TrimForwardLine ==
    /\ trim.pc = "running"
    /\ trim.stage \in DownloadStages
    /\ trim.lines[trim.stage] < MaxTrimLines
    /\ trim' = [trim EXCEPT !.lines[trim.stage] = @ + 1]
    /\ TrimFrame

\* The process of the current stage exits with returncode.  A download stage
\* that failed emits error and returns; a failed ffmpeg stage raises
\* CalledProcessError; otherwise the next stage, or the size of the output.
TrimProcessExit(returncode) ==
    /\ trim.pc = "running"
    /\ LET t == [trim EXCEPT !.codes = Append(@, returncode)]
       IN  trim' =
             IF Failed(returncode)
             THEN IF trim.stage \in DownloadStages
                  THEN [t EXCEPT !.pc = "unwind_return",
                                 !.events = Append(@, TrimEvent("error", returncode, "run"))]
                  ELSE [t EXCEPT !.pc = "unwind_exc", !.exc = "called_process_error"]
             ELSE IF trim.stage < LastStage
                  THEN [t EXCEPT !.pc = "launch", !.stage = @ + 1]
                  ELSE [t EXCEPT !.pc = "measure"]
    /\ TrimFrame

\* os.path.getsize(self._output) and finished.emit, or OSError from getsize.
TrimMeasure ==
    /\ trim.pc = "measure"
    /\ \/ trim' = [trim EXCEPT !.pc = "unwind_return",
                               !.events = Append(@, TrimEvent("finished", 0, "run"))]
       \/ trim' = [trim EXCEPT !.pc = "unwind_exc", !.exc = "other"]
    /\ TrimFrame

\* Control leaves the with block, by return, by falling off its end or by an
\* exception on its way to the except clause.
TrimLeaveScratch ==
    /\ trim.pc \in {"unwind_return", "unwind_exc"}
    /\ trim' = [trim EXCEPT !.tmp_dir = Cleanup(@),
                            !.pc = IF trim.pc = "unwind_return" THEN "done" ELSE "handler"]
    /\ TrimFrame

\* "except Exception as e: self.error.emit(...str(e)...)"; the text of a
\* CalledProcessError holds the exit status.
TrimHandleException ==
    /\ trim.pc = "handler"
    /\ trim' = [trim EXCEPT
                  !.pc = "done",
                  !.events = Append(@, TrimEvent("error",
                                 IF trim.exc = "called_process_error"
                                 THEN trim.codes[Len(trim.codes)] ELSE -1,
                                 "run"))]
    /\ TrimFrame

\* TrimWorker.stop(), called from the control thread while run() is under way.
TrimStop ==
    /\ trim.pc \notin {"created", "done"}
    /\ Cardinality({i \in 1..Len(trim.events) : trim.events[i].by = "stop"}) < MaxStops
    /\ trim' = [trim EXCEPT !.events = Append(@, TrimEvent("error", -1, "stop"))]
    /\ TrimFrame

TrimNext ==
    \/ TrimStart
    \/ TrimEnterScratch
    \/ TrimLaunch
    \/ TrimForwardLine
    \/ \E returncode \in ExitCodes : TrimProcessExit(returncode)
    \/ TrimMeasure
    \/ TrimLeaveScratch
    \/ TrimHandleException

\* A TrimWorker has been constructed for a trimmed download.
TrimInit ==
    /\ SchedulerInit
    /\ trim = NewTrimWorker
    /\ worker = Absent
    /\ parser = Absent
    /\ command = Absent
    /\ single = Absent
    /\ loop = Absent

\* The worker as the program uses it: stop() has no caller in the repository.
TrimSpec == TrimInit /\ [][TrimNext]_vars

TrimStopNext == TrimNext \/ TrimStop

\* The worker with a caller of stop().
TrimStopSpec == TrimInit /\ [][TrimStopNext]_vars

(***************************************************************************)
(* DownloadWorker (a QThread) and the external process it owns.  Each      *)
(* action is one step of the worker thread inside run(), one step of the   *)
(* process, or one call made by the control thread.  A line is the         *)
(* sequence of its characters, without the newline.                        *)
(***************************************************************************)
\* The lines the process may write: empty, blank, plain, padded with spaces.
LineChoices == {<<>>, <<" ">>, <<"a">>, <<" ", "b", " ">>}

\* "Starting download with options: ..." emitted on progress_text before Popen.
StartMessage == <<"$">>

Files == {[exists |-> FALSE, size |-> 0]}
             \cup {[exists |-> TRUE, size |-> n] : n \in 0..MaxSize}

\* str.strip() for the space character.
RECURSIVE LStrip(_)
LStrip(s) == IF s # <<>> /\ s[1] = " " THEN LStrip(Tail(s)) ELSE s

RECURSIVE RStrip(_)
RStrip(s) == IF s # <<>> /\ s[Len(s)] = " " THEN RStrip(SubSeq(s, 1, Len(s) - 1)) ELSE s

Strip(s) == RStrip(LStrip(s))

\* _parse_progress, first statement: every line it is given goes to progress_text.
ParseProgress(w, line) == [w EXCEPT !.log = Append(@, line)]

\* "line = ....strip()" followed by "if line: self._parse_progress(line)".
HandleLine(w, raw) ==
    LET line == Strip(raw)
    IN  IF line # <<>> THEN ParseProgress(w, line) ELSE w

\* "for line in self._process.stdout": the lines from position i on.
RECURSIVE HandleLines(_, _)
HandleLines(w, i) ==
    IF i > Len(w.output) THEN w
    ELSE HandleLines([HandleLine(w, w.output[i]) EXCEPT !.nread = i], i + 1)

\* "os.path.getsize(f) if os.path.exists(f) else 0"
Filesize(file) == IF file.exists THEN file.size ELSE 0

\* A terminal signal: finished(filename, size) or error(message); code is the
\* return code the message carries, -1 for a message without one.
WorkerEvent(kind, code, size) == [kind |-> kind, code |-> code, size |-> size]

\* A slot that reports a download without bytes as failed.
BatchFinishedStatusBySize(filesize) == IF filesize = 0 THEN "Failed" ELSE "Completed"

\* _on_batch_item_finished writes "Completed" whatever the size it is given.
BatchFinishedStatus(filesize) == "Completed"

DownloadFrame == UNCHANGED <<schedulerVars, trim, parser, command, single, loop>>

\* worker.start(): run() is entered and emits paused(False).
RunBegin ==
    /\ worker.pc = "created"
    /\ worker' = [worker EXCEPT !.pc = "build", !.notified = Append(@, FALSE)]
    /\ DownloadFrame

\* The command list is assembled from the options and the settings and
\* announced on progress_text; a value that is not a string makes join raise.
RunBuildCommand ==
    /\ worker.pc = "build"
    /\ \/ worker' = [worker EXCEPT !.pc = "popen", !.log = Append(@, StartMessage)]
       \/ worker' = [worker EXCEPT !.pc = "except", !.exc = "raised"]
    /\ DownloadFrame

\* subprocess.Popen: the process runs, or it cannot be launched.
RunPopen ==
    /\ worker.pc = "popen"
    /\ \/ worker' = [worker EXCEPT !.pc = "poll", !.process = "running"]
       \/ worker' = [worker EXCEPT !.pc = "except", !.exc = "raised"]
    /\ DownloadFrame

\* The process writes one more line to the pipe.
ProcessWrites(line) ==
    /\ worker.process = "running"
    /\ Len(worker.output) < MaxLines
    /\ worker' = [worker EXCEPT !.output = Append(@, line)]
    /\ DownloadFrame

\* The process exits by itself, leaving the destination file as it is then.
ProcessExits(returncode, file) ==
    /\ worker.process = "running"
    /\ worker' = [worker EXCEPT !.process = "exited", !.returncode = returncode,
                                !.file = file]
    /\ DownloadFrame

\* "while self._process.poll() is None"
RunPoll ==
    /\ worker.pc = "poll"
    /\ worker' = [worker EXCEPT !.pc = IF worker.process = "exited" THEN "drain"
                                       ELSE "readline"]
    /\ DownloadFrame

\* readline() returns the next line as soon as there is one, or the empty
\* string at end of file.
RunReadline ==
    /\ worker.pc = "readline"
    /\ worker.nread < Len(worker.output) \/ worker.process = "exited"
    /\ worker' =
         IF worker.nread < Len(worker.output)
         THEN [HandleLine(worker, worker.output[worker.nread + 1])
                 EXCEPT !.pc = "poll", !.nread = worker.nread + 1]
         ELSE [worker EXCEPT !.pc = "poll"]
    /\ DownloadFrame

\* A worker that goes to the return code without reading what is left.
RunDrainSkipped ==
    /\ worker.pc = "drain"
    /\ worker' = [worker EXCEPT !.pc = "check"]
    /\ DownloadFrame

\* "Process remaining output": the lines still in the pipe after the exit.
RunDrain ==
    /\ worker.pc = "drain"
    /\ worker' = [HandleLines(worker, worker.nread + 1) EXCEPT !.pc = "check"]
    /\ DownloadFrame

\* A return code check whose error branch does not return.
RunCheckReturnCodeNoReturn ==
    /\ worker.pc = "check"
    /\ LET w == IF worker.returncode # 0
                THEN [worker EXCEPT !.events =
                        Append(@, WorkerEvent("error", worker.returncode, 0))]
                ELSE worker
       IN  worker' = [w EXCEPT !.pc = "done",
                               !.events = Append(@, WorkerEvent("finished", 0,
                                                       Filesize(worker.file)))]
    /\ DownloadFrame

\* "if self._process.returncode != 0: error.emit(...); return", else the size
\* of the destination file and finished.emit.
RunCheckReturnCode ==
    /\ worker.pc = "check"
    /\ worker' =
         IF worker.returncode # 0
         THEN [worker EXCEPT !.pc = "done", !.events =
                 Append(@, WorkerEvent("error", worker.returncode, 0))]
         ELSE [worker EXCEPT !.pc = "done", !.events =
                 Append(@, WorkerEvent("finished", 0, Filesize(worker.file)))]
    /\ DownloadFrame

\* "except Exception as e: self.error.emit(...)"
RunExcept ==
    /\ worker.pc = "except"
    /\ worker' = [worker EXCEPT !.pc = "done",
                                !.events = Append(@, WorkerEvent("error", -1, 0))]
    /\ DownloadFrame

\* A toggle that also suspends the external process.
TogglePauseSuspends ==
    /\ worker.pc # "created"
    /\ worker.toggles < MaxToggles
    /\ worker' = [worker EXCEPT !.paused = ~@, !.notified = Append(@, ~worker.paused),
                                !.toggles = @ + 1,
                                !.process = IF @ = "running" THEN "suspended" ELSE @]
    /\ DownloadFrame

\* DownloadWorker.toggle_pause(), called from the control thread.
TogglePause ==
    /\ worker.pc # "created"
    /\ worker.toggles < MaxToggles
    /\ worker' = [worker EXCEPT !.paused = ~@, !.notified = Append(@, ~worker.paused),
                                !.toggles = @ + 1]
    /\ DownloadFrame

\* DownloadWorker.stop(), called from the control thread while run() is under
\* way.  terminate() ends a running process, which then has return code -15
\* (SIGTERM); without a process, or with one that has exited, only the flags
\* change.
Stop ==
    /\ worker.pc \notin {"created", "done"}
    /\ worker.stops < MaxStops
    /\ LET w == [worker EXCEPT !.stop_flag = TRUE, !.paused = FALSE,
                               !.stops = @ + 1,
                               !.stop_before_exit = @ \/ worker.process # "exited"]
       IN  worker' = IF worker.process = "running"
                     THEN [w EXCEPT !.process = "exited", !.returncode = -15,
                                    !.terminated = TRUE]
                     ELSE w
    /\ DownloadFrame

\* The event loop delivers the next terminal signal to the connected slot of
\* the scheduler, which writes the status cell of the job.
DeliverTerminalSignal ==
    /\ worker.delivered < Len(worker.events)
    /\ LET e == worker.events[worker.delivered + 1]
       IN  worker' = [worker EXCEPT
                        !.delivered = @ + 1,
                        !.status = IF e.kind = "finished"
                                   THEN BatchFinishedStatus(e.size) ELSE "Failed"]
    /\ DownloadFrame

DownloadNext ==
    \/ RunBegin
    \/ RunBuildCommand
    \/ RunPopen
    \/ \E line \in LineChoices : ProcessWrites(line)
    \/ \E returncode \in ExitCodes, file \in Files : ProcessExits(returncode, file)
    \/ RunPoll
    \/ RunReadline
    \/ RunDrain
    \/ RunCheckReturnCode
    \/ RunExcept
    \/ TogglePause
    \/ DeliverTerminalSignal

\* A DownloadWorker has been constructed for a job.
DownloadInit ==
    /\ SchedulerInit
    /\ trim = Absent
    /\ worker = NewDownloadWorker
    /\ parser = Absent
    /\ command = Absent
    /\ single = Absent
    /\ loop = Absent

\* The worker as the program uses it: stop() has no caller in the repository.
DownloadSpec == DownloadInit /\ [][DownloadNext]_vars

DownloadStopNext == DownloadNext \/ Stop

\* The worker with a caller of stop().
DownloadStopSpec == DownloadInit /\ [][DownloadStopNext]_vars

(***************************************************************************)
(* The progress parser: DownloadWorker._parse_progress as far as the       *)
(* progress signal goes.  The text of a line is a sequence of characters.  *)
(***************************************************************************)
Digits == <<"0", "1", "2", "3", "4", "5", "6", "7", "8", "9">>

IsDigit(c) == \E d \in 1..Len(Digits) : Digits[d] = c

DigitValue(c) == (CHOOSE d \in 1..Len(Digits) : Digits[d] = c) - 1

\* The characters the lines of the model are made of.
Chars == {"0", "1", ".", "%", "-"}

Texts == UNION {[1..n -> Chars] : n \in 0..MaxLineLen}

ParserLines ==
    {Line(d, p, x, text) : d \in BOOLEAN, p \in BOOLEAN, x \in BOOLEAN, text \in Texts}

\* The first position from i on that does not hold a digit (Len(s) + 1 if none).
RECURSIVE EndOfDigits(_, _)
EndOfDigits(s, i) ==
    IF i <= Len(s) /\ IsDigit(s[i]) THEN EndOfDigits(s, i + 1) ELSE i

\* r'(\d+\.\d+)%' matched at position i: digits, a point, digits, a percent sign.
MatchesAt(s, i) ==
    LET dot == EndOfDigits(s, i)
        pct == EndOfDigits(s, dot + 1)
    IN  /\ dot > i
        /\ dot <= Len(s) /\ s[dot] = "."
        /\ pct > dot + 1
        /\ pct <= Len(s) /\ s[pct] = "%"

\* re.search: the leftmost position with a match, 0 when there is none.
Search(s) ==
    IF \E i \in 1..Len(s) : MatchesAt(s, i)
    THEN CHOOSE i \in 1..Len(s) : MatchesAt(s, i) /\ \A j \in 1..(i - 1) : ~MatchesAt(s, j)
    ELSE 0

\* The value of a string of digits.
RECURSIVE DigitsToInt(_)
DigitsToInt(s) ==
    IF s = <<>> THEN 0
    ELSE 10 * DigitsToInt(SubSeq(s, 1, Len(s) - 1)) + DigitValue(s[Len(s)])

\* int(float(group)): the digits before the point.
IntOfMatch(s, i) == DigitsToInt(SubSeq(s, i, EndOfDigits(s, i) - 1))

\* The values _parse_progress emits on the progress signal for one line.
PercentEvents(line) ==
    IF line.download /\ \E i \in 1..Len(line.text) : line.text[i] = "%"
    THEN IF Search(line.text) # 0
         THEN <<IntOfMatch(line.text, Search(line.text))>>
         ELSE <<>>
    ELSE IF line.postprocessing THEN <<95>>
    ELSE IF line.deleting THEN <<98>>
    ELSE <<>>

ParserInit ==
    /\ SchedulerInit
    /\ trim = Absent
    /\ worker = Absent
    /\ command = Absent
    /\ single = Absent
    /\ loop = Absent
    /\ \E line \in ParserLines : parser = NewParser(line)

\* One call of _parse_progress(line).
ParseLine ==
    /\ ~parser.parsed
    /\ parser' = [parser EXCEPT !.parsed = TRUE, !.progress = PercentEvents(parser.line)]
    /\ UNCHANGED <<schedulerVars, trim, worker, command, single, loop>>

ParserNext == ParseLine

ParserSpec == ParserInit /\ [][ParserNext]_vars

(***************************************************************************)
(* The progress parser, speed and ETA: the part of _parse_progress that    *)
(* emits speed_update, with _parse_speed and _parse_eta.  A line is given  *)
(* by what the two searches find in it: the word after "at" and the word   *)
(* after "ETA", each a sequence of characters, or <<"none">> when the      *)
(* search finds nothing.                                                   *)
(***************************************************************************)
NoToken == <<"none">>

SpeedTokens ==
    { <<"1", ".", "5", "K", "i", "B", "/", "s">>,
      <<"2", "M", "i", "B", "/", "s">>,
      <<"1", "G", "i", "B">>,
      <<"1", "0", "B", "/", "s">>,
      <<"K", "i", "B", "/", "s">>,
      <<"U", "n", "k", "n", "o", "w", "n">>,
      <<"1", ".", "5">> }

EtaTokens ==
    { <<"0", "0", ":", "0", "5">>,
      <<"0", "1", ":", "0", "0", ":", "0", "0">>,
      <<"0", "0", ":", "0", "0">>,
      <<"U", "n", "k", "n", "o", "w", "n">>,
      <<"5">>,
      <<"-", "-", ":", "-", "-">>,
      <<":", "3", "0">> }

SpeedLine(download, percent, speed, eta) ==
    [download |-> download, percent |-> percent, speed |-> speed, eta |-> eta]

SpeedLines ==
    {SpeedLine(d, p, s, e) : d \in BOOLEAN, p \in BOOLEAN,
                             s \in SpeedTokens \cup {NoToken},
                             e \in EtaTokens \cup {NoToken}}

\* str.endswith
EndsWith(s, suffix) ==
    /\ Len(s) >= Len(suffix)
    /\ SubSeq(s, Len(s) - Len(suffix) + 1, Len(s)) = suffix

DropLast(s, n) == SubSeq(s, 1, Len(s) - n)

AllDigits(s) == \A i \in 1..Len(s) : IsDigit(s[i])

\* Position of the first "." in s, 0 when there is none.
PointAt(s) ==
    IF \E i \in 1..Len(s) : s[i] = "."
    THEN CHOOSE i \in 1..Len(s) : s[i] = "." /\ \A j \in 1..(i - 1) : s[j] # "."
    ELSE 0

\* float(s) succeeds on digits with at most one point and at least one digit
\* (among the strings made of the characters used here).
FloatOk(s) ==
    LET p == PointAt(s)
    IN  IF p = 0 THEN s # <<>> /\ AllDigits(s)
        ELSE /\ AllDigits(SubSeq(s, 1, p - 1))
             /\ AllDigits(SubSeq(s, p + 1, Len(s)))
             /\ Len(s) > 1

RECURSIVE Power10(_)
Power10(n) == IF n = 0 THEN 1 ELSE 10 * Power10(n - 1)

\* float(s) as the fraction num / den.
FloatOf(s) ==
    LET p == PointAt(s)
    IN  IF p = 0 THEN [num |-> DigitsToInt(s), den |-> 1]
        ELSE [num |-> DigitsToInt(SubSeq(s, 1, p - 1) \o SubSeq(s, p + 1, Len(s))),
              den |-> Power10(Len(s) - p)]

Scaled(s, factor) ==
    IF FloatOk(s) THEN [num |-> FloatOf(s).num * factor, den |-> FloatOf(s).den]
    ELSE [num |-> 0, den |-> 1]

\* _parse_speed: bytes per second, 0 for a string it cannot read.
ParseSpeed(speed_str) ==
    LET s == IF EndsWith(speed_str, <<"/", "s">>) THEN DropLast(speed_str, 2)
             ELSE speed_str
    IN  IF EndsWith(s, <<"K", "i", "B">>) THEN Scaled(DropLast(s, 3), 1024)
        ELSE IF EndsWith(s, <<"M", "i", "B">>) THEN Scaled(DropLast(s, 3), 1024 * 1024)
        ELSE IF EndsWith(s, <<"G", "i", "B">>)
             THEN Scaled(DropLast(s, 3), 1024 * 1024 * 1024)
        ELSE IF EndsWith(s, <<"B">>) THEN Scaled(DropLast(s, 1), 1)
        ELSE [num |-> 0, den |-> 1]

\* str.split(':')
RECURSIVE SplitColon(_)
SplitColon(s) ==
    IF \E i \in 1..Len(s) : s[i] = ":"
    THEN LET i == CHOOSE i \in 1..Len(s) : s[i] = ":" /\ \A j \in 1..(i - 1) : s[j] # ":"
         IN  <<SubSeq(s, 1, i - 1)>> \o SplitColon(SubSeq(s, i + 1, Len(s)))
    ELSE <<s>>

\* int(s) succeeds on a non-empty string of digits.
IntOk(s) == s # <<>> /\ AllDigits(s)

\* _parse_eta, second component: the seconds, 0 for "Unknown", for a string
\* that is not MM:SS or HH:MM:SS and for parts that are not numbers.
ParseEta(eta_str) ==
    LET parts == SplitColon(eta_str)
    IN  IF eta_str = <<"U", "n", "k", "n", "o", "w", "n">> THEN 0
        ELSE IF Len(parts) = 3
             THEN IF \A i \in 1..3 : IntOk(parts[i])
                  THEN DigitsToInt(parts[1]) * 3600 + DigitsToInt(parts[2]) * 60
                           + DigitsToInt(parts[3])
                  ELSE 0
        ELSE IF Len(parts) = 2
             THEN IF \A i \in 1..2 : IntOk(parts[i])
                  THEN DigitsToInt(parts[1]) * 60 + DigitsToInt(parts[2])
                  ELSE 0
        ELSE 0

SpeedEvent(speed, eta) == [speed |-> speed, eta |-> eta]

\* "if speed_match: self.speed_update.emit(self._parse_speed(speed_str), 0)"
SpeedAlone(line) ==
    IF line.speed # NoToken THEN <<SpeedEvent(ParseSpeed(line.speed), 0)>> ELSE <<>>

\* "if eta_match: ... if speed_match and eta_seconds > 0: speed_update.emit(...)"
SpeedWithEta(line) ==
    IF line.eta # NoToken /\ line.speed # NoToken /\ ParseEta(line.eta) > 0
    THEN <<SpeedEvent(ParseSpeed(line.speed), ParseEta(line.eta))>>
    ELSE <<>>

\* The emissions of speed_update for one line, in order.
SpeedEvents(line) ==
    IF line.download /\ line.percent
    THEN SpeedAlone(line) \o SpeedWithEta(line)
    ELSE <<>>

SpeedInit ==
    /\ SchedulerInit
    /\ trim = Absent
    /\ worker = Absent
    /\ command = Absent
    /\ single = Absent
    /\ loop = Absent
    /\ \E line \in SpeedLines : parser = NewParser(line)

\* One call of _parse_progress(line), as far as speed_update goes.
ParseSpeedLine ==
    /\ ~parser.parsed
    /\ parser' = [parser EXCEPT !.parsed = TRUE, !.progress = SpeedEvents(parser.line)]
    /\ UNCHANGED <<schedulerVars, trim, worker, command, single, loop>>

SpeedNext == ParseSpeedLine

SpeedSpec == SpeedInit /\ [][SpeedNext]_vars

(***************************************************************************)
(* The invocation: the argument list DownloadWorker.run builds from what   *)
(* the worker was constructed with and from the QSettings store, and the   *)
(* two dialogs that write the rate limit to that store.  A python value is *)
(* a record of its type and of what str() makes of it.  An argument is a   *)
(* literal word, the flag "--name" of an option name, or a value.          *)
(***************************************************************************)
PyTrue == [type |-> "bool", str |-> "True"]

PyFalse == [type |-> "bool", str |-> "False"]

PyNone == [type |-> "none", str |-> "None"]

PyStr(s) == [type |-> "str", str |-> s]

PyInt(s) == [type |-> "int", str |-> s]

\* bool(v)
Truthy(v) ==
    /\ v # PyFalse
    /\ v # PyNone
    /\ v # PyStr("")
    /\ v # PyInt("0")

OptionValues == {PyTrue, PyFalse, PyNone, PyStr(""), PyStr("mp3"), PyInt("0"), PyInt("2")}

FormatValues == {PyStr("18+bestaudio/best"), PyStr("")}

FormatIds == {PyNone, PyStr(""), PyStr("22")}

Entry(k, v) == [k |-> k, v |-> v]

\* The dicts a worker may be given, in insertion order: "format" first, as
\* _start_download inserts it, then two more options.
EntriesOf(k, values) == {<<>>} \cup {<<Entry(k, v)>> : v \in values}

ExtraOptions ==
    {f \o a \o b : f \in EntriesOf("format", FormatValues),
                   a \in EntriesOf("extract-audio", OptionValues),
                   b \in EntriesOf("audio-format", OptionValues)}

Unset == [type |-> "unset", str |-> ""]

\* What can be typed into the rate limit field of either dialog.
RateTexts == {"", "500"}

\* QSettings.value(key, default)
SettingsValue(store, key, default) ==
    IF store[key] = Unset THEN default ELSE store[key].str

Lit(word) == [kind |-> "literal", text |-> word]

Flag(name) == [kind |-> "flag", text |-> name]

Val(s) == [kind |-> "value", text |-> s]

\* f"{rate_limit}K"
RateVal(s) == [kind |-> "value K", text |-> s]

Url == [kind |-> "url", text |-> "url"]

HasKey(options, k) == \E i \in 1..Len(options) : options[i].k = k

Get(options, k) == (CHOOSE i \in 1..Len(options) : options[i].k = k)

\* dict.pop(k): the dict without the key.
Without(options, k) == SelectSeq(options, LAMBDA e : e.k # k)

\* A pop that hands the value out and leaves the entry in the dict.
PopLeavesEntry(options, k) == options

PopEntry(options, k) == Without(options, k)

\* "if 'format' in self._extra_options: ... elif self._format_id: ..."
FormatArgs(c) ==
    IF HasKey(c.extra_options, "format")
    THEN <<Lit("-f"), Val(c.extra_options[Get(c.extra_options, "format")].v.str)>>
    ELSE IF Truthy(c.format_id) THEN <<Lit("-f"), Val(c.format_id.str)>>
    ELSE <<>>

OptionsAfterFormat(c) ==
    IF HasKey(c.extra_options, "format") THEN PopEntry(c.extra_options, "format")
    ELSE c.extra_options

PostprocessorArgs(c) ==
    <<Lit("--postprocessor-args"),
      Val(IF c.is_audio_only THEN "ffmpeg:-c:a aac -b:a 256k -ar 48000"
          ELSE "ffmpeg:-c:a aac -b:a 192k -ar 48000 -c:v copy")>>

\* "rate_limit = self._settings.value("rate_limit", "0")"
RateLimitArgs(c) ==
    LET rate_limit == SettingsValue(c.store, "rate_limit", "0")
    IN  IF rate_limit # "" /\ rate_limit # "0"
        THEN <<Lit("--limit-rate"), RateVal(rate_limit)>>
        ELSE <<>>

\* timeout and retries at the values the store has for them when neither
\* was saved; proxy, geo_bypass and cookies_file at theirs add nothing.
NetworkArgs == <<Lit("--socket-timeout"), Val("10")>>

RetriesArgs == <<Lit("--retries"), Val("10")>>

\* An entry left out unless its value is truthy.
ExtraArgsTruthy(e) ==
    IF e.v = PyTrue THEN <<Flag(e.k)>>
    ELSE IF Truthy(e.v) THEN <<Flag(e.k), Val(e.v.str)>>
    ELSE <<>>

\* "if v is True: ... elif v is not False and v is not None: ..."
ExtraArgs(e) ==
    IF e.v = PyTrue THEN <<Flag(e.k)>>
    ELSE IF e.v # PyFalse /\ e.v # PyNone THEN <<Flag(e.k), Val(e.v.str)>>
    ELSE <<>>

RECURSIVE AllExtraArgs(_)
AllExtraArgs(options) ==
    IF options = <<>> THEN <<>>
    ELSE ExtraArgs(Head(options)) \o AllExtraArgs(Tail(options))

BaseArgs ==
    <<Lit("yt-dlp"), Lit("--newline"), Lit("--progress"),
      Lit("--ffmpeg-location"), Val("ffmpeg")>>

OutputArgs == <<Lit("-o"), Val("output_filename")>>

\* cmd as run() has it when it reaches Popen.
Cmd(c) ==
    BaseArgs \o FormatArgs(c) \o OutputArgs \o PostprocessorArgs(c)
        \o RateLimitArgs(c) \o NetworkArgs \o RetriesArgs
        \o AllExtraArgs(OptionsAfterFormat(c)) \o <<Url>>

NewStore == [rate_limit |-> Unset, limit_rate |-> Unset]

NewCommand(format_id, extra_options, is_audio_only) ==
    [pc |-> "constructed", format_id |-> format_id, extra_options |-> extra_options,
     is_audio_only |-> is_audio_only, store |-> NewStore, saved_by |-> "nobody",
     cmd |-> <<>>]

CommandFrame == UNCHANGED <<schedulerVars, trim, worker, parser, single, loop>>

CommandInit ==
    /\ SchedulerInit
    /\ trim = Absent
    /\ worker = Absent
    /\ parser = Absent
    /\ single = Absent
    /\ loop = Absent
    /\ \E format_id \in FormatIds, extra_options \in ExtraOptions,
          is_audio_only \in BOOLEAN :
           command = NewCommand(format_id, extra_options, is_audio_only)

\* SettingsDialog.accept, the rate limit among what it saves.
SettingsDialogAccept(text) ==
    /\ command.pc = "constructed"
    /\ command' = [command EXCEPT !.store.limit_rate = PyStr(text),
                                  !.saved_by = "SettingsDialog"]
    /\ CommandFrame

\* MainWindow._save_download_settings, the rate limit among what it saves.
SaveRateLimit(text) ==
    /\ command.pc = "constructed"
    /\ command' = [command EXCEPT !.store.limit_rate = PyStr(text),
                                  !.saved_by = "MainWindow"]
    /\ CommandFrame

\* DownloadWorker.run from its first line to the call of Popen.
BuildCommand ==
    /\ command.pc = "constructed"
    /\ command' = [command EXCEPT !.pc = "built",
                                  !.cmd = Cmd(command),
                                  !.extra_options = OptionsAfterFormat(command)]
    /\ CommandFrame

CommandNext ==
    \/ \E text \in RateTexts : SettingsDialogAccept(text)
    \/ \E text \in RateTexts : SaveRateLimit(text)
    \/ BuildCommand

CommandSpec == CommandInit /\ [][CommandNext]_vars

(***************************************************************************)
(* The single-video tab of MainWindow: _fetch_info, _start_download and    *)
(* the slots connected to the worker it starts, next to the scheduler.     *)
(* video_info is whether self._video_info holds a video; download_btn and  *)
(* pause_btn are whether the two buttons are enabled; current_worker is    *)
(* self._current_worker ("none", "download" or "trim"); running counts the *)
(* worker threads of the tab that have not ended; ended is the terminal    *)
(* signal of the last one that has ("none", "finished", "error"); starts   *)
(* counts the workers started.                                             *)
(***************************************************************************)
MaxSingleStarts == 2

NewSingle ==
    [video_info |-> FALSE, download_btn |-> TRUE, pause_btn |-> FALSE,
     current_worker |-> "none", running |-> 0, ended |-> "none", starts |-> 0]

SingleFrame == UNCHANGED <<schedulerVars, trim, worker, parser, command, loop>>

\* _fetch_info followed by _on_info_fetched: the video of the URL is known.
OnInfoFetched ==
    /\ ~single.video_info
    /\ single' = [single EXCEPT !.video_info = TRUE]
    /\ SingleFrame

\* _fetch_info with the worker ending in error: the previous info is cleared.
FetchInfoFails ==
    /\ single.video_info
    /\ single' = [single EXCEPT !.video_info = FALSE]
    /\ SingleFrame

\* _start_download past its early returns: a click on the enabled Download
\* button with a video fetched and a format selected.  trim_enabled is the
\* state of the trim checkbox.  The worker is created and started here;
\* self._active_downloads and self._max_concurrent_downloads are not read.
StartDownload(trim_enabled) ==
    /\ single.download_btn
    /\ single.video_info
    /\ single.starts < MaxSingleStarts
    /\ single' = [single EXCEPT !.download_btn = FALSE,
                                !.pause_btn = TRUE,
                                !.current_worker = IF trim_enabled THEN "trim"
                                                   ELSE "download",
                                !.running = @ + 1,
                                !.ended = "none",
                                !.starts = @ + 1]
    /\ SingleFrame

\* The worker emits finished: _on_download_finished runs.
OnDownloadFinished ==
    /\ single.running > 0
    /\ single' = [single EXCEPT !.download_btn = TRUE,
                                !.pause_btn = FALSE,
                                !.current_worker = "none",
                                !.running = @ - 1,
                                !.ended = "finished"]
    /\ SingleFrame

\* The worker emits error: "lambda e: self._log(e, error=True)" runs, which
\* touches neither button nor self._current_worker.
OnDownloadError ==
    /\ single.running > 0
    /\ single' = [single EXCEPT !.running = @ - 1, !.ended = "error"]
    /\ SingleFrame

SingleNext ==
    \/ OnInfoFetched
    \/ FetchInfoFails
    \/ \E trim_enabled \in BOOLEAN : StartDownload(trim_enabled)
    \/ OnDownloadFinished
    \/ OnDownloadError

AppInit ==
    /\ SchedulerInit
    /\ trim = Absent
    /\ worker = Absent
    /\ parser = Absent
    /\ command = Absent
    /\ single = NewSingle
    /\ loop = Absent

AppNext == Next \/ SingleNext

\* The main window with its three download tabs.
AppSpec == AppInit /\ [][AppNext]_vars

(***************************************************************************)
(* Threads.  Every DownloadWorker is a QThread: run() executes in a thread *)
(* of its own and emits finished or error there.  The slots connected to   *)
(* these signals are callables created by the main thread, so an emission  *)
(* from run() is posted to the event loop of the main thread, which calls  *)
(* one slot at a time; the slots, the timer and the button handlers have   *)
(* no nested event loop between their reads and writes of                  *)
(* _active_downloads and _download_queue.  A handler is followed here      *)
(* through its read and its write of _active_downloads ("-= 1") and its    *)
(* call of _process_download_queue.  Thread 0 is the main thread, thread w *)
(* the one of worker w.                                                    *)
(***************************************************************************)
MaxWorkers == 3

MainThread == 0

WorkerIds == 1..MaxWorkers

\* The timer event among the posted events.
TickEvent == 0

NoHandler == [pc |-> "idle", of |-> 0, local |-> 0]

\* active and queue are _active_downloads and _download_queue (worker ids);
\* st is the state of each worker ("new", "queued", "running", "emitted",
\* "handled"); posted the events waiting in the main thread's event loop;
\* handlers the slot each thread is executing; writers the threads that have
\* written active or queue.
NewLoop ==
    [active |-> 0, queue |-> <<>>, st |-> [w \in WorkerIds |-> "new"],
     posted |-> <<>>, handlers |-> [t \in 0..MaxWorkers |-> NoHandler],
     writers |-> {}]

\* The thread the slots of worker w are called in when they are called
\* directly by emit(): the thread of run().
ReceiverInEmitterThread(w) == w

\* The thread the receiver of the slots of worker w lives in: the slots are
\* connected by _start_playlist_item_download and _start_batch_item_download,
\* which the main thread executes.
ReceiverThread(w) == MainThread

\* _process_download_queue executed by thread t.
LoopProcessQueue(l, t) ==
    IF l.active >= DefaultMaxConcurrent \/ l.queue = <<>> THEN l
    ELSE [l EXCEPT !.queue = Tail(@),
                   !.active = @ + 1,
                   !.st[Head(l.queue)] = "running",
                   !.writers = @ \cup {t}]

LoopFrame == UNCHANGED <<schedulerVars, trim, worker, parser, command, single>>

LoopInit ==
    /\ SchedulerInit
    /\ trim = Absent
    /\ worker = Absent
    /\ parser = Absent
    /\ command = Absent
    /\ single = Absent
    /\ loop = NewLoop

\* _start_playlist_download / _start_batch_download on a button click: the
\* main thread appends the items and calls _process_download_queue.
LoopStartDownloads ==
    /\ loop.handlers[MainThread].pc = "idle"
    /\ \A w \in WorkerIds : loop.st[w] = "new"
    /\ loop' = LoopProcessQueue(
                  [loop EXCEPT !.queue = [i \in WorkerIds |-> i],
                               !.st = [w \in WorkerIds |-> "queued"],
                               !.writers = @ \cup {MainThread}],
                  MainThread)
    /\ LoopFrame

\* The QTimer of the main window times out: a timer event is posted (one at
\* a time waits in the event loop).
LoopTimeout ==
    /\ \A i \in 1..Len(loop.posted) : loop.posted[i] # TickEvent
    /\ loop' = [loop EXCEPT !.posted = Append(@, TickEvent)]
    /\ LoopFrame

\* run() of worker w emits its terminal signal.  With the receiver in the
\* emitting thread the slot is called at once, in that thread; otherwise
\* the call is posted to the thread of the receiver.
LoopEmit(w) ==
    /\ loop.st[w] = "running"
    /\ IF ReceiverThread(w) = w
       THEN loop' = [loop EXCEPT !.st[w] = "emitted",
                                 !.handlers[w] = [pc |-> "read", of |-> w, local |-> 0]]
       ELSE loop' = [loop EXCEPT !.st[w] = "emitted",
                                 !.posted = Append(@, w)]
    /\ LoopFrame

\* The event loop of the main thread, idle, takes the next event: a timer
\* event runs _process_download_queue, a terminal signal starts its slot.
LoopDispatch ==
    /\ loop.handlers[MainThread].pc = "idle"
    /\ loop.posted # <<>>
    /\ LET event == Head(loop.posted)
           rest == [loop EXCEPT !.posted = Tail(@)]
       IN  IF event = TickEvent
           THEN loop' = LoopProcessQueue(rest, MainThread)
           ELSE loop' = [rest EXCEPT !.handlers[MainThread] =
                                        [pc |-> "read", of |-> event, local |-> 0]]
    /\ LoopFrame

\* Thread t executes the next step of the slot it is in:
\* "self._active_downloads -= 1" as its read and its write, then
\* "self._process_download_queue()".
LoopStep(t) ==
    /\ loop.handlers[t].pc # "idle"
    /\ LET h == loop.handlers[t]
       IN  CASE h.pc = "read" ->
                  loop' = [loop EXCEPT !.handlers[t].pc = "write",
                                       !.handlers[t].local = loop.active]
             [] h.pc = "write" ->
                  loop' = [loop EXCEPT !.handlers[t].pc = "process",
                                       !.active = h.local - 1,
                                       !.writers = @ \cup {t}]
             [] h.pc = "process" ->
                  loop' = LoopProcessQueue(
                             [loop EXCEPT !.handlers[t] = NoHandler,
                                          !.st[h.of] = "handled"], t)
    /\ LoopFrame

LoopNext ==
    \/ LoopStartDownloads
    \/ LoopTimeout
    \/ \E w \in WorkerIds : LoopEmit(w)
    \/ LoopDispatch
    \/ \E t \in 0..MaxWorkers : LoopStep(t)

ThreadSpec == LoopInit /\ [][LoopNext]_vars

(***************************************************************************)
(* Vocabulary of the properties.                                           *)
(***************************************************************************)
Terminal == {"completed", "failed", "cancelled"}

Range(seq) == {seq[i] : i \in 1..Len(seq)}

Occurrences(seq, x) == Cardinality({i \in 1..Len(seq) : seq[i] = x})

Increasing(seq) == \A i, j \in 1..Len(seq) : i < j => seq[i] < seq[j]

\* The jobs whose worker has been started and whose terminal event is not handled.
RunningJobs == {id \in JobIds : jobs[id].st = "running"}

\* This step ran a terminal-event handler of job id.
HandlerRan(id) ==
    jobs'[id].finished_calls + jobs'[id].error_calls
        > jobs[id].finished_calls + jobs[id].error_calls

\* This step handed one more job to a worker.
Admitted == Len(launched') > Len(launched)

\* This step called _process_download_queue.
TickCalled ==
    \/ QueueTimer
    \/ \E n \in 1..MaxJobs : StartBatchDownload(n)
    \/ \E selected \in SUBSET (0..(MaxVideos - 1)) : StartPlaylistDownload(selected)
    \/ \E id \in JobIds : OnPlaylistItemFinished(id) /\ ~playlist_info.none
    \/ \E id \in JobIds : OnPlaylistItemError(id)
    \/ \E id \in JobIds : OnBatchItemFinished(id)
    \/ \E id \in JobIds : OnBatchItemError(id)

\* The status cell the batch table shows for a job: the cell of its row.
BatchCell(table, id) ==
    IF jobs[id].index + 1 \in 1..Len(table) THEN table[jobs[id].index + 1] ELSE "none"

(***************************************************************************)
(* C1.  Claim: in every reachable state 0 <= active_count <= max_concurrent,*)
(* whatever the interleaving of enqueue, tick, terminal events, cancel and *)
(* runtime changes of max_concurrent.                                      *)
(***************************************************************************)
C1_ActiveWithinMax ==
    0 <= active_downloads /\ active_downloads <= max_concurrent_downloads

\* C1 as amended: active_count is never negative, and whenever a step raises it
\* the raised value is at most max_concurrent; it exceeds max_concurrent only
\* after max_concurrent was lowered below the number of running workers.
C1_ActiveBoundedAtAdmission ==
    /\ active_downloads >= 0
    /\ [][/\ active_downloads' >= 0
          /\ active_downloads' > active_downloads
                => active_downloads' <= max_concurrent_downloads'
          /\ (active_downloads <= max_concurrent_downloads
              /\ active_downloads' > max_concurrent_downloads')
                => max_concurrent_downloads' < max_concurrent_downloads]_vars

\* C1 witness: more workers are counted active than the lowered limit allows.
C1_OverCapacityAfterLowering ==
    active_downloads > max_concurrent_downloads

(***************************************************************************)
(* C2.  Claim: when a call of the tick operation returns, active_count has *)
(* reached max_concurrent or pending_queue is empty.                       *)
(***************************************************************************)
C2_TickFillsCapacity ==
    [][TickCalled => \/ active_downloads' >= max_concurrent_downloads'
                     \/ download_queue' = <<>>]_vars

\* C2 as amended: one call admits at most one job, the head of the queue, and
\* only when active_count < max_concurrent; it may return with jobs pending
\* and capacity to spare.
C2_TickAdmitsAtMostOne ==
    /\ [][Len(launched') <= Len(launched) + 1]_vars
    /\ [][(QueueTimer /\ download_queue # <<>>
                      /\ active_downloads < max_concurrent_downloads)
            => /\ launched' = Append(launched, download_queue[1])
               /\ download_queue' = Tail(download_queue)
               /\ active_downloads' = active_downloads + 1]_vars

\* C2 witness: two batch jobs were enqueued with room for both; the call that
\* followed launched the first and left the second pending.
C2_SpareCapacityAfterTick ==
    /\ Len(jobs) = 2
    /\ launched = <<1>>
    /\ download_queue = <<2>>
    /\ active_downloads = 1
    /\ max_concurrent_downloads = 2

(***************************************************************************)
(* C3.  Claim: with the timer firing and every launched worker ending,     *)
(* every enqueued job eventually reaches a terminal state.                 *)
(***************************************************************************)
C3_EveryJobTerminates ==
    \A id \in 1..MaxJobs :
        (id \in JobIds) ~> (id \in JobIds /\ jobs[id].st \in Terminal)

(***************************************************************************)
(* C4.  Claim: every terminal-event handler reaches the decrement of       *)
(* active_count and the follow-up tick, whatever the state of the UI data  *)
(* it touches first.                                                       *)
(***************************************************************************)
C4_HandlerReachesDecrement ==
    [][\A id \in JobIds :
         HandlerRan(id) =>
            /\ jobs'[id].decrements = jobs[id].decrements + 1
            /\ active_downloads' =
                   active_downloads - 1 + (Len(launched') - Len(launched))]_vars

(***************************************************************************)
(* C5.  Claim: for every launched worker active_count is decremented       *)
(* exactly once, at its terminal event; its finished and error handlers    *)
(* never both run and neither runs twice.                                  *)
(***************************************************************************)
C5_DecrementedExactlyOnce ==
    \A id \in JobIds :
        /\ jobs[id].finished_calls + jobs[id].error_calls <= 1
        /\ jobs[id].decrements = jobs[id].finished_calls + jobs[id].error_calls
        /\ jobs[id].st \in {"completed", "failed"}
              <=> jobs[id].finished_calls + jobs[id].error_calls = 1

(***************************************************************************)
(* C6.  Claim: a job is consumed exactly once: it leaves pending_queue     *)
(* before its worker is launched, is never launched twice, and is never    *)
(* both pending and running.                                               *)
(***************************************************************************)
C6_JobConsumedOnce ==
    \A id \in JobIds :
        /\ Occurrences(launched, id) <= 1
        /\ Occurrences(download_queue, id) <= 1
        /\ ~(id \in Range(launched) /\ id \in Range(download_queue))
        /\ jobs[id].st = "pending" <=> id \in Range(download_queue)
        /\ jobs[id].st \in {"running", "completed", "failed"}
              <=> id \in Range(launched)

\* C6 witness: one job was dequeued and launched while another is still queued.
C6_LaunchedWhileOthersPending ==
    launched # <<>> /\ download_queue # <<>>

(***************************************************************************)
(* C7.  Claim: admission is FIFO: jobs are launched in the order they were *)
(* enqueued, and cancelling a pending job does not reorder the others.     *)
(* Job ids are given in enqueue order.                                     *)
(***************************************************************************)
C7_FifoAdmission ==
    /\ Increasing(launched)
    /\ Increasing(download_queue)
    /\ \A a \in Range(launched) : \A p \in Range(download_queue) : a < p

\* C7 witness: a job enqueued between two others was cancelled while pending,
\* and the two were launched in their enqueue order.
C7_TwoAdmittedAfterCancel ==
    \E a, c, b \in JobIds :
        /\ a < c /\ c < b
        /\ jobs[c].st = "cancelled"
        /\ launched = <<a, b>>

(***************************************************************************)
(* C8.  Claim: a terminal event changes the status of its own job only:    *)
(* the status shown for any other job stays as it was, except for the job  *)
(* the follow-up tick admits.                                              *)
(***************************************************************************)
C8_TerminalEventOwnJobOnly ==
    [][\A id \in JobIds :
         (HandlerRan(id) /\ jobs[id].kind = "batch") =>
            \A k \in JobIds \ {id} :
                (jobs[k].kind = "batch" /\ jobs'[k].st = jobs[k].st)
                    => BatchCell(batch_status', k) = BatchCell(batch_status, k)]_vars

(***************************************************************************)
(* C9.  Claim: cancelling a job that is running produces one terminal      *)
(* event for it: the request reaches the job's worker, which is stopped.   *)
(***************************************************************************)
C9_CancelRunningStopsWorker ==
    \A id \in JobIds : jobs[id].cancel_requested => jobs[id].stop_flag

(***************************************************************************)
(* C10.  Claim: changing max_concurrent never stops or removes a running   *)
(* worker, and the new value is the one the next admission check compares  *)
(* active_count with.                                                      *)
(***************************************************************************)
C10_MaxChangeTakesEffectWithoutPreemption ==
    [][/\ max_concurrent_downloads' # max_concurrent_downloads
            => /\ jobs' = jobs
               /\ active_downloads' = active_downloads
               /\ download_queue' = download_queue
               /\ launched' = launched
       /\ max_concurrent_downloads' = StrToInt(settings_max')
       /\ Admitted => /\ max_concurrent_downloads' = max_concurrent_downloads
                      /\ active_downloads' <= max_concurrent_downloads]_vars

\* C10 witness: the limit was lowered below the number of running workers; they
\* all still run and the pending job is held back.
C10_PendingHeldAfterDecrease ==
    /\ active_downloads > max_concurrent_downloads
    /\ Cardinality(RunningJobs) = active_downloads
    /\ download_queue # <<>>

(***************************************************************************)
(* C11.  Claim: when stage 2 of the trim pipeline exits non-zero, none of  *)
(* stages 3 to 5 is started, the scratch directory is removed and exactly  *)
(* one Failure event is emitted, carrying stage 2's exit code; the same    *)
(* holds for a failure of stage 1, 3, 4 or 5.  Checked for the worker as   *)
(* the program runs it.                                                    *)
(***************************************************************************)
C11_StageFailureAbortsPipeline ==
    \A k \in 1..Len(trim.codes) :
        trim.codes[k] # 0 =>
            /\ k = Len(trim.codes)
            /\ trim.started = [i \in 1..k |-> i]
            /\ \A i \in 1..(k - 1) : trim.codes[i] = 0
            /\ Len(trim.events) <= 1
            /\ \A i \in 1..Len(trim.events) :
                   trim.events[i] = TrimEvent("error", trim.codes[k], "run")
            /\ trim.pc = "done" => /\ Len(trim.events) = 1
                                   /\ trim.tmp_dir = "removed"

\* C11 witness: stage 2 exited non-zero and run() has returned.
C11_StageTwoFailedAndReturned ==
    /\ trim.pc = "done"
    /\ Len(trim.codes) = 2
    /\ trim.codes[2] # 0

(***************************************************************************)
(* C12.  Claim: the scratch directory exists only while run() is inside    *)
(* the pipeline; on every exit path of run() it has been removed before    *)
(* the worker thread ends.                                                 *)
(***************************************************************************)
C12_ScratchRemovedOnEveryExit ==
    /\ trim.tmp_dir = "exists"
          <=> trim.pc \in {"launch", "running", "measure", "unwind_return", "unwind_exc"}
    /\ trim.pc \in {"handler", "done"} /\ trim.started # <<>> => trim.tmp_dir = "removed"

\* C12 witness: an ffmpeg stage raised, and run() ended after the except clause.
C12_EndedAfterCutStageException ==
    /\ trim.pc = "done"
    /\ trim.exc = "called_process_error"
    /\ trim.tmp_dir = "removed"

(***************************************************************************)
(* C13.  Claim: a Trim Worker emits exactly one terminal event per run,    *)
(* also when stop() is called during the run: stop() and run() together    *)
(* never produce two terminal events.                                      *)
(***************************************************************************)
C13_OneTerminalEventPerRun ==
    /\ Len(trim.events) <= 1
    /\ trim.pc = "done" => Len(trim.events) = 1

(***************************************************************************)
(* C14.  Claim: every run of a Download Worker ends with exactly one       *)
(* terminal event: error carrying the exit code when the process exits     *)
(* non-zero, error when the process cannot be launched or an exception     *)
(* occurs, finished otherwise; never both, never neither, and no exception *)
(* leaves run().                                                           *)
(***************************************************************************)
C14_ExactlyOneTerminalEvent ==
    /\ Len(worker.events) <= 1
    /\ worker.pc = "done" <=> Len(worker.events) = 1
    /\ worker.pc = "done" =>
          worker.events[1] =
             IF worker.exc = "raised" THEN WorkerEvent("error", -1, 0)
             ELSE IF worker.returncode # 0
                  THEN WorkerEvent("error", worker.returncode, 0)
                  ELSE WorkerEvent("finished", 0, Filesize(worker.file))

\* C14 witness: the process exited non-zero and run() ended with the one error.
C14_EndedWithErrorOfExitCode ==
    /\ worker.pc = "done"
    /\ worker.process = "exited"
    /\ worker.returncode # 0
    /\ worker.events = <<WorkerEvent("error", worker.returncode, 0)>>

(***************************************************************************)
(* C15.  Claim: when the process exits with status 0 and the destination   *)
(* file does not exist, the worker still reports finished with size 0 and  *)
(* the scheduler marks the job Completed, not Failed.                      *)
(***************************************************************************)
C15_MissingFileReportedCompleted ==
    (/\ worker.pc = "done"
     /\ worker.exc = "none"
     /\ worker.returncode = 0
     /\ ~worker.file.exists)
        => /\ worker.events = <<WorkerEvent("finished", 0, 0)>>
           /\ worker.delivered = 1 => worker.status = "Completed"

\* C15 witness: exit status 0, no destination file, and the signal was handled.
C15_MissingFileHandled ==
    /\ worker.pc = "done"
    /\ worker.exc = "none"
    /\ worker.returncode = 0
    /\ ~worker.file.exists
    /\ worker.delivered = 1

(***************************************************************************)
(* C16.  Claim: once stop() has set the stop flag, the external process is *)
(* terminated and the worker reports a non-success outcome, wherever       *)
(* stop() falls in run(), also between the start of the thread and the     *)
(* launch of the process.  Only a stop() made before the process had       *)
(* exited is held against the claim.                                       *)
(***************************************************************************)
C16_StopYieldsTerminatedOutcome ==
    (worker.pc = "done" /\ worker.stop_before_exit) =>
        /\ worker.process # "none" => worker.terminated
        /\ worker.events[1].kind = "error"

(***************************************************************************)
(* C17.  Claim: toggle_pause() only flips the paused flag and emits the    *)
(* paused notification with the new value; the process, the stop flag and  *)
(* the progress and terminal events are left as they were, and two         *)
(* consecutive toggles restore the flag.                                   *)
(***************************************************************************)
C17_TogglePauseOnlyFlipsFlag ==
    /\ worker.paused <=> worker.toggles % 2 = 1
    /\ [][worker'.toggles # worker.toggles =>
            /\ worker'.paused = ~worker.paused
            /\ worker'.notified = Append(worker.notified, worker'.paused)
            /\ worker' = [worker EXCEPT !.paused = worker'.paused,
                                        !.notified = worker'.notified,
                                        !.toggles = worker'.toggles]]_vars

\* C17 witness: the flag was set by one toggle, and the download ran to its
\* end and was reported finished with the flag still set.
C17_FinishedWhilePaused ==
    /\ worker.paused
    /\ worker.toggles = 1
    /\ worker.pc = "done"
    /\ worker.events[1].kind = "finished"
    /\ Len(worker.log) > 1

(***************************************************************************)
(* C19.  Claim: every output line of the external process is forwarded to  *)
(* the log sink, whether or not it parses, exactly once and in the order   *)
(* the process produced it, including the lines still buffered when the    *)
(* process exits.  Forwarding a line without its surrounding spaces counts *)
(* as forwarding it.                                                       *)
(***************************************************************************)
\* What progress_text carried after the announcement of the command.
ForwardedLines == IF worker.log = <<>> THEN <<>> ELSE Tail(worker.log)

StrippedOutput(n) == [i \in 1..n |-> Strip(worker.output[i])]

NonBlank(line) == line # <<>>

C18_PercentEventsInRange ==
    parser.parsed =>
        /\ Len(parser.progress) <= 1
        /\ \A i \in 1..Len(parser.progress) :
               0 <= parser.progress[i] /\ parser.progress[i] <= 100

(***************************************************************************)
(* C20.  Claim: a history record is appended for every job whose terminal  *)
(* event is Completed, exactly one per completed job and none for a job    *)
(* that Failed or was Cancelled, for playlist items also when the playlist *)
(* information was fetched again or replaced during the download.          *)
(***************************************************************************)
C20_HistoryRecordPerCompletedJob ==
    \A id \in JobIds :
        jobs[id].history_records = IF jobs[id].st = "completed" THEN 1 ELSE 0

(***************************************************************************)
(* C21.  Claim: the parser emits a speed event for a line only when the    *)
(* line has a speed token that parses and an ETA token with a positive     *)
(* number of seconds; with the speed token unparseable or absent, or the   *)
(* ETA missing, "Unknown" or zero, it emits no speed event at all.         *)
(***************************************************************************)
C21_SpeedEventOnlyWithPositiveEta ==
    parser.parsed =>
        /\ Len(parser.progress) <= 1
        /\ \A i \in 1..Len(parser.progress) :
               /\ parser.progress[i].eta > 0
               /\ parser.progress[i].speed.num > 0

\* The number of positions of seq that hold x.
CountOf(seq, x) == Cardinality({i \in 1..Len(seq) : seq[i] = x})

\* The selector the claim names for a worker: the explicit 'format' option
\* when there is one, else the format identifier.
SelectorOf(c) ==
    IF HasKey(c.extra_options, "format")
    THEN c.extra_options[Get(c.extra_options, "format")].v.str
    ELSE c.format_id.str

(***************************************************************************)
(* C22.  When the worker is given a format selector (a 'format' extra      *)
(* option, or a non-empty format identifier), the argument list it builds  *)
(* has exactly one "-f", followed by the explicit option if present and by *)
(* the format identifier otherwise; "--format" does not appear among the   *)
(* extra options; and the source locator is the last argument.             *)
(***************************************************************************)
C22_OneFormatSelectorUrlLast ==
    [][BuildCommand =>
          LET cmd == command'.cmd
          IN  /\ (HasKey(command.extra_options, "format") \/ Truthy(command.format_id))
                     => /\ CountOf(cmd, Lit("-f")) = 1
                        /\ \E i \in 1..(Len(cmd) - 1) :
                               cmd[i] = Lit("-f") /\ cmd[i + 1] = Val(SelectorOf(command))
              /\ CountOf(cmd, Flag("format")) = 0
              /\ cmd[Len(cmd)] = Url
              /\ CountOf(cmd, Url) = 1]_vars

\* A worker given both a 'format' option and a format identifier has built
\* its argument list, with the option as the selector.
C22_BuiltWithOptionAndIdentifier ==
    /\ command.pc = "built"
    /\ command.format_id = PyStr("22")
    /\ \E i \in 1..(Len(command.cmd) - 1) :
           command.cmd[i] = Lit("-f") /\ command.cmd[i + 1] = Val("18+bestaudio/best")

\* The arguments the claim gives an entry: with empty values left out.
ArgsEmptyOmitted(e) ==
    IF e.v = PyTrue THEN <<Flag(e.k)>>
    ELSE IF e.v \in {PyFalse, PyNone, PyStr("")} THEN <<>>
    ELSE <<Flag(e.k), Val(e.v.str)>>

\* The arguments of an entry when only false and null are left out.
ArgsFalseNullOmitted(e) ==
    IF e.v = PyTrue THEN <<Flag(e.k)>>
    ELSE IF e.v \in {PyFalse, PyNone} THEN <<>>
    ELSE <<Flag(e.k), Val(e.v.str)>>

RECURSIVE AllArgsEmptyOmitted(_)
AllArgsEmptyOmitted(options) ==
    IF options = <<>> THEN <<>>
    ELSE ArgsEmptyOmitted(Head(options)) \o AllArgsEmptyOmitted(Tail(options))

RECURSIVE AllArgsFalseNullOmitted(_)
AllArgsFalseNullOmitted(options) ==
    IF options = <<>> THEN <<>>
    ELSE ArgsFalseNullOmitted(Head(options)) \o AllArgsFalseNullOmitted(Tail(options))

\* The arguments of cmd between the retries and the source locator.
ExtraPart(c) ==
    LET i == CHOOSE i \in 1..Len(c.cmd) : c.cmd[i] = Lit("--retries")
    IN  SubSeq(c.cmd, i + 2, Len(c.cmd) - 1)

C30_SavedRateLimitReachesCommand ==
    (/\ command.pc = "built"
     /\ command.store.limit_rate \notin {Unset, PyStr("")})
        => CountOf(command.cmd, Lit("--limit-rate")) = 1

\* The jobs that are pending or running.
LiveJobs == {id \in JobIds : jobs[id].st \in {"pending", "running"}}

\* The batch job row idx of the batch table shows: the table is filled anew by
\* every _start_batch_download, so it is the last job created with that index.
ShownInRow(idx) ==
    LET ids == {id \in JobIds : jobs[id].kind = "batch" /\ jobs[id].index = idx}
    IN  CHOOSE id \in ids : \A other \in ids : other <= id

RowShowsJob(idx) ==
    \E id \in JobIds : jobs[id].kind = "batch" /\ jobs[id].index = idx

(***************************************************************************)
(* C27.  Claim: a click on Cancel in the row of a batch job that is still  *)
(* pending takes exactly that job out of the queue and marks it cancelled, *)
(* leaving active_downloads and every other job as they were, and a        *)
(* cancelled job is never launched afterwards; a click for a job that is   *)
(* not in the queue changes nothing of the scheduler.                      *)
(***************************************************************************)
C27_CancelPendingRemovesThatJob ==
    [][\A idx \in 0..(Len(batch_cancel_enabled) - 1) :
         (CancelBatchItem(idx) /\ RowShowsJob(idx)) =>
            LET id == ShownInRow(idx)
            IN  /\ active_downloads' = active_downloads
                /\ launched' = launched
                /\ jobs[id].st = "pending"
                      => /\ jobs'[id].st = "cancelled"
                         /\ download_queue' = SelectSeq(download_queue, LAMBDA q : q # id)
                         /\ \A k \in JobIds \ {id} : jobs'[k].st = jobs[k].st
                /\ jobs[id].st # "pending"
                      => /\ download_queue' = download_queue
                         /\ batch_status' = batch_status
                         /\ \A k \in JobIds : jobs'[k].st = jobs[k].st
       /\ \A k \in JobIds :
             jobs[k].st = "cancelled" => jobs'[k].st = "cancelled"]_vars

(***************************************************************************)
(* C28.  Claim: among the jobs that are pending or running, no two of the  *)
(* same kind have the same index, also when a second batch or playlist     *)
(* download is started while jobs of an earlier one are pending or running.*)
(***************************************************************************)
C28_IndexIdentifiesOneLiveJob ==
    \A a, b \in LiveJobs :
        (jobs[a].kind = jobs[b].kind /\ jobs[a].index = jobs[b].index) => a = b

\* The number of Download/Trim worker threads that are running.
RunningThreads(jbs, tab) ==
    Cardinality({id \in 1..Len(jbs) : jbs[id].st = "running"}) + tab.running

(***************************************************************************)
(* C26.  Claim: every worker thread the application starts, the one of the *)
(* single-video tab included, is started within the capacity: once it is   *)
(* started, the running worker threads are at most max_concurrent.         *)
(***************************************************************************)
C26_EveryStartWithinCapacity ==
    [][RunningThreads(jobs', single') > RunningThreads(jobs, single)
          => RunningThreads(jobs', single') <= max_concurrent_downloads']_vars

(***************************************************************************)
(* C29.  Claim: once the worker of the single-video tab has emitted its    *)
(* terminal signal, finished or error, the Download button is enabled, the *)
(* Pause button is disabled and current_worker is cleared.                 *)
(***************************************************************************)
C29_SingleTabResetAfterTerminal ==
    (single.ended # "none" /\ single.running = 0)
        => /\ single.download_btn
           /\ ~single.pause_btn
           /\ single.current_worker = "none"

\* Position of job id in launched: the order in which workers were created.
LaunchPosition(id) == CHOOSE i \in 1..Len(launched) : launched[i] = id

\* The path the worker of a launched job writes to, with the download type
\* and the output directory left as they are between two clicks.  A playlist
\* item gets the sanitized title of its row and the extension; a batch item
\* gets temp_<second>_<batch index> and the extension, the second taken
\* here as different for every launch (the case most favourable to the
\* claim).  The rename of a finished batch item happens after its worker
\* has ended and gives no running worker a path.
DestinationPath(id) ==
    IF jobs[id].kind = "playlist"
    THEN [stem |-> "title of row", second |-> 0, index |-> jobs[id].index, ext |-> ".mp4"]
    ELSE [stem |-> "temp", second |-> LaunchPosition(id), index |-> jobs[id].index,
          ext |-> ".mp4"]

(***************************************************************************)
(* C25.  Claim: no two workers that are running at the same time have the  *)
(* same destination path.                                                  *)
(***************************************************************************)
C25_RunningWorkersHaveDistinctPaths ==
    \A a, b \in RunningJobs :
        DestinationPath(a) = DestinationPath(b) => a = b

\* The threads that are inside a slot.
InHandler == {t \in 0..MaxWorkers : loop.handlers[t].pc # "idle"}

\* The workers whose slot has not yet written its decrement.
Counted ==
    {w \in WorkerIds :
        \/ loop.st[w] = "running"
        \/ /\ loop.st[w] = "emitted"
           /\ \A t \in InHandler :
                 loop.handlers[t].of = w => loop.handlers[t].pc # "process"}

====
